---- MODULE Spec2Model ----
(***************************************************************************)
(* lucid (src/main.rs): an interruptible sleep.  The module models          *)
(*   - duration_from_float and the f64 arithmetic it performs,              *)
(*   - run(): argument evaluation, daemonization, the status messages, the  *)
(*     signal handler registration and the polling loop,                    *)
(*   - the ctrlc handler closure, which runs concurrently with the loop,    *)
(*   - main(): the mapping of run()'s result to the process exit.           *)
(* Time is in milliseconds.                                                 *)
(***************************************************************************)
EXTENDS Integers, Sequences, FiniteSets, TLC

\* ------------------------------------------------------------------ bounds

\* Largest magnitude, in 1/DecScale seconds, of the contiguous range of
\* duration values fed to duration_from_float.
MaxDecN == 21000

\* The environment's clock step outside of exact wake-ups.
TickMs == 50

\* The clock stops making free steps at this time (wake-ups still happen).
MaxNow == 160

\* Signals delivered in one run.
MaxSignals == 2

\* Polling cycles started in a run without a target before the model stops
\* following an uninterrupted loop.
MaxCycles == 3

\* Largest binary exponent of the whole-number duration values m * 2^e fed
\* to duration_from_float.
MaxExp2 == 66

\* ---------------------------------------------------------------- constants

\* 1e3 / 1000 in duration_from_float.
MillisPerSec == 1000

\* Values are decimal texts with four decimal places: one digit more than
\* the millisecond.
DecScale == 10 * MillisPerSec

\* Width of the f64 significand.
MantBits == 53

\* time::Duration::from_millis(100)
cycle_time == 100

\* VerbosityLevel, in declaration order (derive(PartialOrd)).
Quiet == 0
Normal == 1
Verbose == 2

VerbosityLevel == {Quiet, Normal, Verbose}

\* Mutant: the comparison runs against the declaration order.
partial_cmp_Reversed(a, b) ==
    IF a > b THEN "Less" ELSE IF a < b THEN "Greater" ELSE "Equal"

\* derive(PartialOrd) on a fieldless enum: the variants compare by their
\* position in the declaration.
partial_cmp(a, b) ==
    IF a < b THEN "Less" ELSE IF a > b THEN "Greater" ELSE "Equal"

\* derive(PartialEq): two values are equal iff they are the same variant.
eq(a, b) == a = b

\* ------------------------------------------------------------ f64 arithmetic
\* A finite f64 is kept as the decimal it was parsed from: sign and
\* magnitude n (in 1/DecScale).  The binary64 value differs from n/DecScale by
\* the representation error, which the operators below compute exactly with
\* small integers.

Pow2(k) == 2 ^ k

RECURSIVE ExpUp(_, _)
\* largest a >= 0 with 2^a * DecScale <= n   (n >= DecScale)
ExpUp(n, a) == IF Pow2(a + 1) * DecScale <= n THEN ExpUp(n, a + 1) ELSE a

RECURSIVE ExpDown(_, _)
\* largest a < 0 with DecScale <= n * 2^(-a)   (0 < n < DecScale)
ExpDown(n, a) == IF n * Pow2(-a) < DecScale THEN ExpDown(n, a - 1) ELSE a

\* floor(log2(n / DecScale)) for n > 0: the binade of the value.
Exp2(n) == IF n >= DecScale THEN ExpUp(n, 0) ELSE ExpDown(n, -1)

RECURSIVE DoubleMod(_, _, _)
\* (v * 2^k) mod m for 0 <= v < m, sixteen doublings at a time
DoubleMod(v, k, m) ==
    IF k <= 16 THEN (v * Pow2(k)) % m
    ELSE DoubleMod((v * Pow2(16)) % m, k - 16, m)

\* n/DecScale scaled so that its integer part is the 53-bit significand,
\* reduced mod 2*DecScale: the discarded fraction is (F64Scaled % DecScale) /
\* DecScale and the significand is odd iff F64Scaled >= DecScale.
F64Scaled(n) == DoubleMod(n % (2 * DecScale), (MantBits - 1) - Exp2(n), 2 * DecScale)

F64Rem(n) == F64Scaled(n) % DecScale

\* round-to-nearest, ties-to-even, of the decimal to binary64
F64RoundsUp(n) ==
    \/ 2 * F64Rem(n) > DecScale
    \/ 2 * F64Rem(n) = DecScale /\ F64Scaled(n) >= DecScale

\* The binary64 value is strictly below the decimal n/DecScale.
F64Below(n) == n > 0 /\ F64Rem(n) # 0 /\ ~F64RoundsUp(n)

\* text.parse::<f64>() for a text the parser accepts.  form "dec": the decimal
\* n/DecScale; "pow": the whole number n * 2^e (n < 2^53, so the f64 is exact);
\* "inf" and "nan": the texts "inf"/"infinity" and "NaN", which parse::<f64>
\* accepts in any letter case and with a sign.
ParseF64(text) == [neg |-> text.neg, n |-> text.n, form |-> text.form, e |-> text.e]

\* Mutant: the sign is examined on the value rounded to milliseconds.
F64Negative_AfterRound(f) == f.neg /\ (f.n + 5) \div 10 > 0

\* f < 0.0 (IEEE comparison: -0.0 is not less than 0.0, NaN is not less than
\* anything, -inf is)
F64Negative(f) == f.neg /\ f.form # "nan" /\ (f.form = "inf" \/ f.n > 0)

\* duration_sec.floor() as u64, for a decimal f >= 0
F64FloorU64(f) == f.n \div DecScale

\* Mutant: the fraction is truncated, not rounded.
F64FracMillis_Trunc(f) == (f.n % DecScale) \div 10

\* For a decimal f: f64::round (half away from zero) of the binary64 product
\* (duration_sec - secs as f64) * 1e3, as u64.  The subtraction is exact; the
\* product is rounded to binary64 before round() sees it.
F64FracMillis(f) ==
    LET fr == f.n % DecScale
        k == fr \div 10
        a == Exp2(f.n)
        \* binade of the doubles just below k + 1/2
        bp == IF k = 0 THEN -2 ELSE Exp2(k * DecScale)
        d == a - bp + 1
        rem == F64Rem(f.n)
        \* the product, below k + 1/2 by MillisPerSec * rem/DecScale ulps of the
        \* input, still rounds to the double k + 1/2
        productIsHalf ==
            IF d >= 0 THEN MillisPerSec * rem * Pow2(d) <= DecScale
                      ELSE MillisPerSec * rem <= DecScale * Pow2(-d)
    IN  IF fr % 10 < 5 THEN k
        ELSE IF fr % 10 > 5 THEN k + 1
        ELSE IF ~F64Below(f.n) THEN k + 1
        ELSE IF productIsHalf THEN k + 1 ELSE k

\* -------------------------------------------------------------- u64 arithmetic
\* Whole numbers beyond the model checker's integers are sequences of 16-bit
\* limbs, least significant first.  A u64 occupies the first U64Limbs limbs;
\* two more limbs hold what a u64 operation would lose.

Limb == 2 ^ 16
U64Limbs == 4
WideLimbs == U64Limbs + 2

\* a small non-negative integer as limbs
W(a) == [i \in 1 .. WideLimbs |-> IF i = 1 THEN a % Limb ELSE IF i = 2 THEN a \div Limb ELSE 0]

\* limbs that denote a small integer, as that integer
WToInt(x) == x[1] + x[2] * Limb

\* x * k for k <= 2^15
WMulSmall(x, k) ==
    LET c1 == x[1] * k
        c2 == x[2] * k + c1 \div Limb
        c3 == x[3] * k + c2 \div Limb
        c4 == x[4] * k + c3 \div Limb
        c5 == x[5] * k + c4 \div Limb
        c6 == x[6] * k + c5 \div Limb
    IN  <<c1 % Limb, c2 % Limb, c3 % Limb, c4 % Limb, c5 % Limb, c6 % Limb>>

\* x * 2^e
WShift(x, e) ==
    LET y == WMulSmall(x, Pow2(e % 16))
        j == e \div 16
    IN  [i \in 1 .. WideLimbs |-> IF i <= j THEN 0 ELSE y[i - j]]

WAdd(x, y) ==
    LET c1 == x[1] + y[1]
        c2 == x[2] + y[2] + c1 \div Limb
        c3 == x[3] + y[3] + c2 \div Limb
        c4 == x[4] + y[4] + c3 \div Limb
        c5 == x[5] + y[5] + c4 \div Limb
        c6 == x[6] + y[6] + c5 \div Limb
    IN  <<c1 % Limb, c2 % Limb, c3 % Limb, c4 % Limb, c5 % Limb, c6 % Limb>>

\* x - y for x >= y
WSub(x, y) ==
    LET d1 == x[1] - y[1]
        d2 == x[2] - y[2] - (IF d1 < 0 THEN 1 ELSE 0)
        d3 == x[3] - y[3] - (IF d2 < 0 THEN 1 ELSE 0)
        d4 == x[4] - y[4] - (IF d3 < 0 THEN 1 ELSE 0)
        d5 == x[5] - y[5] - (IF d4 < 0 THEN 1 ELSE 0)
        d6 == x[6] - y[6] - (IF d5 < 0 THEN 1 ELSE 0)
    IN  <<d1 % Limb, d2 % Limb, d3 % Limb, d4 % Limb, d5 % Limb, d6 % Limb>>

\* u64::MAX and 2^64
U64Max == [i \in 1 .. WideLimbs |-> IF i <= U64Limbs THEN Limb - 1 ELSE 0]
TwoTo64 == [i \in 1 .. WideLimbs |-> IF i = U64Limbs + 1 THEN 1 ELSE 0]

FitsU64(x) == \A i \in (U64Limbs + 1) .. WideLimbs : x[i] = 0

\* the low 64 bits: what a wrapping u64 operation keeps
WrapU64(x) == [i \in 1 .. WideLimbs |-> IF i <= U64Limbs THEN x[i] ELSE 0]

\* `as u64` of a non-negative whole f64: the cast saturates
SatU64(x) == IF FitsU64(x) THEN x ELSE U64Max

\* the whole number a "pow" f64 denotes
F64Whole(f) == WShift(W(f.n), f.e)

\* let secs = duration_sec.floor() as u64;   (NaN as u64 is 0, inf is u64::MAX)
SecsU64(f) ==
    IF f.form = "dec" THEN W(F64FloorU64(f))
    ELSE IF f.form = "nan" THEN W(0)
    ELSE IF f.form = "inf" THEN U64Max
    ELSE SatU64(F64Whole(f))

\* secs as f64: exact for the values here, except u64::MAX, which rounds to 2^64
U64AsF64(secs) == IF secs = U64Max THEN TwoTo64 ELSE secs

\* let millisecs = ((duration_sec - secs as f64) * 1e3).round() as u64;
\* for a whole number the difference and the product are exact.
MillisU64(f) ==
    IF f.form = "dec" THEN W(F64FracMillis(f))
    ELSE IF f.form = "nan" THEN W(0)
    ELSE IF f.form = "inf" THEN U64Max
    ELSE SatU64(WMulSmall(WSub(F64Whole(f), U64AsF64(SecsU64(f))), MillisPerSec))

\* ------------------------------------------------------------------ results

Ok(v) == [kind |-> "Ok", val |-> v, err |-> "none"]
Err(e) == [kind |-> "Err", val |-> 0, err |-> e]
NoResult == [kind |-> "none", val |-> 0, err |-> "none"]

\* fn duration_from_float(duration_sec: f64) -> Result<time::Duration>, with
\* the Duration as a u64 count of milliseconds.  "Overflow": secs * 1000 +
\* millisecs does not fit a u64; val is the wrapped value.
duration_from_float_u64(duration_sec) ==
    IF F64Negative(duration_sec) THEN [kind |-> "Err", val |-> W(0), err |-> "DurationNegative"]
    ELSE LET secs == SecsU64(duration_sec)
             millisecs == MillisU64(duration_sec)
             prod == WMulSmall(secs, MillisPerSec)
             sum == WAdd(WrapU64(prod), millisecs)
         IN  IF FitsU64(prod) /\ FitsU64(sum)
             THEN [kind |-> "Ok", val |-> sum, err |-> "none"]
             ELSE [kind |-> "Overflow", val |-> WrapU64(sum), err |-> "none"]

\* duration_from_float where the millisecond count is a small integer
duration_from_float(duration_sec) ==
    LET r == duration_from_float_u64(duration_sec)
    IN  IF r.kind = "Err" THEN Err(r.err) ELSE Ok(WToInt(r.val))


\* ------------------------------------------------------------------- inputs

\* The text of the duration argument: absent, a word that is no number, or a
\* decimal number (sign, magnitude in 1/DecScale).
NoArg == [present |-> FALSE, numeric |-> FALSE, neg |-> FALSE, n |-> 0, form |-> "none", e |-> 0]
Word == [present |-> TRUE, numeric |-> FALSE, neg |-> FALSE, n |-> 0, form |-> "none", e |-> 0]
Dec(neg, n) == [present |-> TRUE, numeric |-> TRUE, neg |-> neg, n |-> n, form |-> "dec", e |-> 0]

\* "NaN", "inf" / "-inf", and the digits of the whole number m * 2^e
NaNText == [present |-> TRUE, numeric |-> TRUE, neg |-> FALSE, n |-> 0, form |-> "nan", e |-> 0]
InfText(neg) == [present |-> TRUE, numeric |-> TRUE, neg |-> neg, n |-> 0, form |-> "inf", e |-> 0]
WholeText(neg, m, e) == [present |-> TRUE, numeric |-> TRUE, neg |-> neg, n |-> m, form |-> "pow", e |-> e]

\* forever, "abc", "NaN", "-1", "0", "0.03", "0.1", "0.13"
RunDurations ==
    {NoArg, Word, NaNText, Dec(TRUE, DecScale), Dec(FALSE, 0), Dec(FALSE, 300),
     Dec(FALSE, MillisPerSec), Dec(FALSE, 1300)}

\* The text of --exit-code: whether it parses as i32, and its value.
ExitArgs == {[ok |-> TRUE, val |-> 0], [ok |-> TRUE, val |-> 3], [ok |-> FALSE, val |-> 0]}

\* The three flags the loop never reads (--exit-code, --daemon, --stderr) are
\* combined so that every pair of their values occurs, not every triple.
PairwiseFlags(m) == (m.exit_code.ok /\ m.exit_code.val # 0) <=> (m.daemon = m.stderr)

\* clap's ArgMatches; --verbose and --quiet conflict.
Matches ==
    {m \in [duration : RunDurations, exit_code : ExitArgs, verbose : BOOLEAN,
            quiet : BOOLEAN, no_interrupt : BOOLEAN, daemon : BOOLEAN,
            stderr : BOOLEAN] : ~(m.verbose /\ m.quiet) /\ PairwiseFlags(m)}

\* The values duration_from_float is applied to on its own: every decimal up
\* to MaxDecN of either sign, and the values of test_duration_from_float.
TestValues == {140000, 140001, 123450, 123454, 123456, 10, 11000}
DurInputs ==
    {Dec(neg, n) : neg \in BOOLEAN, n \in (0 .. MaxDecN) \cup TestValues}
        \cup {Dec(TRUE, 12000)}

\* -------------------------------------------------------------------- state

VARIABLES
    matches,            \* the parsed command line
    pc,                 \* position of the main thread
    sleeping_duration,  \* Option<Duration>: [some, ms]
    verbosity_level, no_interrupt, exit_code, print_to_stderr,
    now,                \* the monotonic clock
    start_time,
    since_start,
    running,            \* the AtomicBool latch: TRUE = running, FALSE = interrupted
    handler_set,        \* ctrlc handler registered
    wake_at,            \* deadline of the thread::sleep in progress
    slice,              \* argument of the last thread::sleep
    woke_after,         \* start_time.elapsed() of the final message
    reported,           \* messages passed to OutputHandler::print / print_verbose
    out,                \* lines handed to stdout / stderr, in order
    write_failed,       \* a writeln! of the OutputHandler returned an error
    result,             \* what run() returned
    exit_status,        \* how the process ended
    exit_path,          \* which break left the loop
    cycles,             \* loop iterations started
    slices,             \* thread::sleep calls
    sig_count,          \* signals delivered to the handler
    sig_first,          \* where the main thread was at the first delivery
    sig_early,          \* a signal was delivered at elapsed < target
    slices_after_sig,   \* thread::sleep calls begun after the first delivery
    pend,               \* a signal was delivered since the last latch read
    loaded,             \* what the latch read of the current iteration returned
    dur_in, dur_out,    \* argument and result of a lone duration_from_float
    wide_out,           \* result of a lone duration_from_float, as a u64
    cmp_in, cmp_out     \* three VerbosityLevels and the results of comparing them

vars ==
    <<matches, pc, sleeping_duration, verbosity_level, no_interrupt, exit_code,
      print_to_stderr, now, start_time, since_start, running, handler_set,
      wake_at, slice, woke_after, out, result, exit_status, exit_path, cycles,
      slices, sig_count, sig_first, sig_early, slices_after_sig, pend,
      reported, write_failed, loaded, dur_in, dur_out, wide_out, cmp_in, cmp_out>>

cfg_vars == <<sleeping_duration, verbosity_level, no_interrupt, exit_code, print_to_stderr>>
clock_vars == <<now, start_time, since_start, wake_at, slice, woke_after>>
sig_vars == <<sig_count, sig_first, sig_early, pend>>
count_vars == <<cycles, slices, slices_after_sig>>
cmp_vars == <<cmp_in, cmp_out>>
dur_vars == <<dur_in, dur_out, wide_out, cmp_vars>>

None == [some |-> FALSE, ms |-> 0]
Some(ms) == [some |-> TRUE, ms |-> ms]

StillRunning == [kind |-> "running", code |-> 0]
Exited(code) == [kind |-> "exit", code |-> code]
Panicked == [kind |-> "panic", code |-> 0]

\* ----------------------------------------------------------- OutputHandler

Line(stream, prefixed, msg, arg) ==
    [stream |-> stream, prefixed |-> prefixed, msg |-> msg, arg |-> arg]

\* fn print_with_prefix: writeln!(handle, "[{}]: {}", self.prefix, msg)
print_with_prefix(o, to_stderr, msg) ==
    Append(o, Line(IF to_stderr THEN "stderr" ELSE "stdout", TRUE, msg, "none"))

\* Mutant: the write's result is unwrapped, a failed write ends the run.
AfterWrite_Unwrap(ok, next) == IF ok THEN next ELSE "exited"

\* writeln!(..).ok(): the io::Result of the write is discarded and the caller
\* goes on to `next` whether the write succeeded or not.
AfterWrite(ok, next) == next

\* fn print
print(o, level, to_stderr, msg) ==
    IF level \in {Verbose, Normal} THEN print_with_prefix(o, to_stderr, msg) ELSE o

\* fn print_verbose
print_verbose(o, level, to_stderr, msg) ==
    IF level = Verbose THEN print_with_prefix(o, to_stderr, msg) ELSE o

\* ---------------------------------------------------------------- run: setup

\* let sleeping_duration = match matches.value_of("duration") { ... }?
ParseDurationArg(d) ==
    IF ~d.present THEN Ok(None)
    ELSE IF ~d.numeric THEN Err("DurationParseError")
    ELSE LET r == duration_from_float(ParseF64(d))
         IN  IF r.kind = "Ok" THEN Ok(Some(r.val)) ELSE r

\* let verbosity_level = if verbose { Verbose } else if quiet { Quiet } else { Normal }
LevelOf(m) == IF m.verbose THEN Verbose ELSE IF m.quiet THEN Quiet ELSE Normal

\* Mutant: a value that does not parse yields the failure code.
ExitCodeOf_Failure(m) == IF m.exit_code.ok THEN m.exit_code.val ELSE 1

\* value_of("exit-code").and_then(|c| c.parse::<i32>().ok()).unwrap_or(0i32)
ExitCodeOf(m) == IF m.exit_code.ok THEN m.exit_code.val ELSE 0

InitCommon ==
    /\ sleeping_duration = None
    /\ verbosity_level = Normal
    /\ no_interrupt = FALSE
    /\ exit_code = 0
    /\ print_to_stderr = FALSE
    /\ now = 0
    /\ start_time = 0
    /\ since_start = 0
    /\ running = TRUE
    /\ handler_set = FALSE
    /\ wake_at = 0
    /\ slice = 0
    /\ woke_after = 0
    /\ out = <<>>
    /\ result = NoResult
    /\ exit_status = StillRunning
    /\ exit_path = "none"
    /\ cycles = 0
    /\ slices = 0
    /\ sig_count = 0
    /\ sig_first = "none"
    /\ sig_early = FALSE
    /\ slices_after_sig = 0
    /\ pend = FALSE
    /\ loaded = "none"
    /\ reported = <<>>
    /\ write_failed = FALSE
    /\ dur_out = NoResult
    /\ wide_out = NoResult
    /\ cmp_out = <<>>

Init ==
    /\ matches \in Matches
    /\ pc = "args"
    /\ dur_in = NoArg
    /\ cmp_in = <<>>
    /\ InitCommon

\* run(), from the argument evaluation to the OutputHandler
ParseArgs ==
    /\ pc = "args"
    /\ LET r == ParseDurationArg(matches.duration)
       IN  IF r.kind = "Err"
           THEN /\ result' = r
                /\ pc' = "main"
                /\ UNCHANGED cfg_vars
           ELSE /\ sleeping_duration' = r.val
                /\ verbosity_level' = LevelOf(matches)
                /\ no_interrupt' = matches.no_interrupt
                /\ exit_code' = ExitCodeOf(matches)
                /\ print_to_stderr' = matches.stderr
                /\ pc' = "daemon"
                /\ UNCHANGED result
    /\ UNCHANGED <<matches, loaded, clock_vars, running, handler_set, out, exit_status,
                   exit_path, count_vars, sig_vars, reported, write_failed, dur_vars>>

\* Mutant: the result of unistd::daemon is not propagated.
AfterDaemon_Ignored(ok) == "status"

\* unistd::daemon(true, true).map_err(|_| FailedToDaemonize)?: on failure
\* run() returns at once.
AfterDaemon(ok) == IF ok THEN "status" ELSE "main"

DaemonResult(ok, r) == IF ok THEN r ELSE Err("FailedToDaemonize")

\* if matches.is_present("daemon") { print_verbose; unistd::daemon(true, true)? }
Daemonize ==
    /\ pc = "daemon"
    /\ IF matches.daemon
       THEN /\ out' = print_verbose(out, verbosity_level, print_to_stderr, "Daemonizing")
            /\ \E ok \in BOOLEAN, wrote \in BOOLEAN :
                 /\ write_failed' = (write_failed \/ (out' # out /\ ~wrote))
                 /\ pc' = AfterWrite(out' # out => wrote, AfterDaemon(ok))
                 /\ result' = DaemonResult(ok, result)
       ELSE pc' = "status" /\ UNCHANGED <<out, result, write_failed>>
    /\ reported' = (IF matches.daemon THEN Append(reported, "Daemonizing") ELSE reported)
    /\ UNCHANGED <<matches, loaded, cfg_vars, clock_vars, running, handler_set,
                   exit_status, exit_path, count_vars, sig_vars,
                   dur_vars>>

\* match sleeping_duration { None => "Going to sleep forever", Some => "Going to sleep for .." }
GoingMsg(target) == IF target.some THEN "GoingFor" ELSE "GoingForever"

\* the status messages and let start_time = time::Instant::now()
PrintStatus ==
    /\ pc = "status"
    /\ LET o1 == print_verbose(out, verbosity_level, print_to_stderr, "getcwd")
           o2 == print_verbose(o1, verbosity_level, print_to_stderr, "getpid")
       IN  out' = print(o2, verbosity_level, print_to_stderr, GoingMsg(sleeping_duration))
    /\ start_time' = now
    /\ \E wrote \in BOOLEAN :
         /\ write_failed' = (write_failed \/ (out' # out /\ ~wrote))
         /\ pc' = AfterWrite(out' # out => wrote, "handler")
    /\ reported' = reported \o <<"getcwd", "getpid", GoingMsg(sleeping_duration)>>
    /\ UNCHANGED <<matches, loaded, cfg_vars, now, since_start, wake_at, slice,
                   woke_after, running, handler_set, result, exit_status,
                   exit_path, count_vars, sig_vars, dur_vars>>

\* let running = Arc::new(AtomicBool::new(true));
\* ctrlc::set_handler(..).expect("Error while setting up signal handler.")
SetHandler ==
    /\ pc = "handler"
    /\ running' = TRUE
    /\ \E ok \in BOOLEAN :
         IF ok
         THEN /\ handler_set' = TRUE
              /\ pc' = "sample"
              /\ UNCHANGED <<out, exit_status>>
         ELSE /\ out' = Append(out, Line("stderr", FALSE, "Panic", "none"))
              /\ exit_status' = Panicked
              /\ pc' = "exited"
              /\ UNCHANGED handler_set
    /\ UNCHANGED <<matches, loaded, cfg_vars, clock_vars, result, exit_path,
                   count_vars, sig_vars, reported, write_failed, dur_vars>>


\* ----------------------------------------------------------------- run: loop

\* let since_start = start_time.elapsed();
Sample ==
    /\ pc = "sample"
    /\ sleeping_duration.some \/ cycles < MaxCycles \/ ~running
    /\ since_start' = now - start_time
    /\ cycles' = cycles + 1
    /\ loaded' = "none"
    /\ pc' = "load"
    /\ UNCHANGED <<matches, cfg_vars, now, start_time, wake_at, slice,
                   woke_after, running, handler_set, out, result, exit_status,
                   exit_path, slices, slices_after_sig, sig_vars, reported, write_failed,
                   dur_vars>>

\* Mutant: the latch read is ignored.
AfterLoad_Ignored(value) == "check"

\* The position after `if !running.load(Ordering::SeqCst)` read `value`.
AfterLoad(value) == IF value THEN "check" ELSE "interrupted"

\* if !running.load(Ordering::SeqCst) {
LoadLatch ==
    /\ pc = "load"
    /\ pc' = AfterLoad(running)
    /\ pend' = FALSE
    /\ loaded' = (IF running THEN "running" ELSE "interrupted")
    /\ UNCHANGED <<matches, cfg_vars, clock_vars, running, handler_set, out,
                   result, exit_status, exit_path, count_vars, sig_count,
                   sig_first, sig_early, reported, write_failed, dur_vars>>

\* output.print("Ignoring termination signal.");
Ignore ==
    /\ pc = "interrupted"
    /\ no_interrupt
    /\ out' = print(out, verbosity_level, print_to_stderr, "Ignoring")
    /\ \E wrote \in BOOLEAN :
         /\ write_failed' = (write_failed \/ (out' # out /\ ~wrote))
         /\ pc' = AfterWrite(out' # out => wrote, "rearm")
    /\ reported' = Append(reported, "Ignoring")
    /\ UNCHANGED <<matches, loaded, cfg_vars, clock_vars, running, handler_set, result,
                   exit_status, exit_path, count_vars, sig_vars,
                   dur_vars>>

\* Mutant: the re-arm stores the interrupted value.
RearmStore_Stuck == FALSE

\* The value the loop stores to re-arm the latch.
RearmStore == TRUE

\* Mutant: the iteration is abandoned after the re-arm (`continue`).
AfterRearm_Continue == "sample"

\* The position after the no-interrupt branch: the same iteration's duration
\* check.
AfterRearm == "check"

\* running.store(true, Ordering::SeqCst);
Rearm ==
    /\ pc = "rearm"
    /\ running' = RearmStore
    /\ pc' = AfterRearm
    /\ UNCHANGED <<matches, loaded, cfg_vars, clock_vars, handler_set, out, result,
                   exit_status, exit_path, count_vars, sig_vars, reported, write_failed,
                   dur_vars>>

\* Mutant: the interrupted branch falls through to the duration check.
AfterCaught_NoBreak == "check"

\* The position `break` in the interrupted branch leads to.
AfterCaught == "woke"

\* output.print("Caught termination signal - interrupting sleep."); break;
Caught ==
    /\ pc = "interrupted"
    /\ ~no_interrupt
    /\ out' = print(out, verbosity_level, print_to_stderr, "Caught")
    /\ exit_path' = "Interrupted"
    /\ \E wrote \in BOOLEAN :
         /\ write_failed' = (write_failed \/ (out' # out /\ ~wrote))
         /\ pc' = AfterWrite(out' # out => wrote, AfterCaught)
    /\ reported' = Append(reported, "Caught")
    /\ UNCHANGED <<matches, loaded, cfg_vars, clock_vars, running, handler_set, result,
                   exit_status, count_vars, sig_vars, dur_vars>>

\* Mutant: a remainder shorter than the quantum ends the loop instead of
\* being slept.
NextSlice_NoClamp(target, since) ==
    IF target.some
    THEN IF since + cycle_time > target.ms
         THEN [sleep |-> FALSE, d |-> 0]
         ELSE [sleep |-> TRUE, d |-> cycle_time]
    ELSE [sleep |-> TRUE, d |-> cycle_time]

\* Mutant: the last slice is not clamped to the remainder.
NextSlice_FullQuantum(target, since) ==
    IF target.some /\ since >= target.ms
    THEN [sleep |-> FALSE, d |-> 0]
    ELSE [sleep |-> TRUE, d |-> cycle_time]

\* The duration check and the slice computation of one iteration: break, or
\* the argument of thread::sleep.
NextSlice(target, since) ==
    IF target.some
    THEN IF since >= target.ms
         THEN [sleep |-> FALSE, d |-> 0]
         ELSE IF since + cycle_time > target.ms
              THEN IF target.ms > since
                   THEN [sleep |-> TRUE, d |-> target.ms - since]
                   ELSE [sleep |-> FALSE, d |-> 0]
              ELSE [sleep |-> TRUE, d |-> cycle_time]
    ELSE [sleep |-> TRUE, d |-> cycle_time]

\* if let Some(sleeping_duration) = sleeping_duration { ... } else { ... }:
\* break, or enter thread::sleep
CheckDuration ==
    /\ pc = "check"
    /\ LET s == NextSlice(sleeping_duration, since_start)
       IN  IF s.sleep
           THEN /\ wake_at' = now + s.d
                /\ slice' = s.d
                /\ slices' = slices + 1
                /\ slices_after_sig' = slices_after_sig + (IF sig_count > 0 THEN 1 ELSE 0)
                /\ pc' = "sleeping"
                /\ UNCHANGED exit_path
           ELSE /\ exit_path' = "Done"
                /\ pc' = "woke"
                /\ UNCHANGED <<wake_at, slice, slices, slices_after_sig>>
    /\ UNCHANGED <<matches, loaded, cfg_vars, now, start_time, since_start, woke_after,
                   running, handler_set, out, result, exit_status, cycles,
                   sig_vars, reported, write_failed, dur_vars>>

\* thread::sleep returns: not before the requested time has passed
Wake ==
    /\ pc = "sleeping"
    /\ now >= wake_at
    /\ pc' = "progress"
    /\ UNCHANGED <<matches, loaded, cfg_vars, clock_vars, running, handler_set, out,
                   result, exit_status, exit_path, count_vars, sig_vars,
                   reported, write_failed, dur_vars>>

\* output.print_verbose("Still dreaming after ..")
Progress ==
    /\ pc = "progress"
    /\ out' = print_verbose(out, verbosity_level, print_to_stderr, "Still")
    /\ \E wrote \in BOOLEAN :
         /\ write_failed' = (write_failed \/ (out' # out /\ ~wrote))
         /\ pc' = AfterWrite(out' # out => wrote, "sample")
    /\ reported' = Append(reported, "Still")
    /\ UNCHANGED <<matches, loaded, cfg_vars, clock_vars, running, handler_set, result,
                   exit_status, exit_path, count_vars, sig_vars,
                   dur_vars>>

\* Mutant: run() returns the default code.
RunResult_Zero(code) == Ok(0)

\* The value run() returns after the loop.
RunResult(code) == Ok(code)

\* output.print("Woke up after .."); Ok(exit_code)
WokeUp ==
    /\ pc = "woke"
    /\ woke_after' = now - start_time
    /\ out' = print(out, verbosity_level, print_to_stderr, "Woke")
    /\ result' = RunResult(exit_code)
    /\ \E wrote \in BOOLEAN :
         /\ write_failed' = (write_failed \/ (out' # out /\ ~wrote))
         /\ pc' = AfterWrite(out' # out => wrote, "main")
    /\ reported' = Append(reported, "Woke")
    /\ UNCHANGED <<matches, loaded, cfg_vars, now, start_time, since_start, wake_at,
                   slice, running, handler_set, exit_status, exit_path,
                   count_vars, sig_vars, dur_vars>>

\* ---------------------------------------------------------------------- main

\* Mutant: the error arm exits with the result's value.
MainExitCode_ErrZero(r) == r.val

\* The code main() passes to std::process::exit for run()'s result.
MainExitCode(r) == IF r.kind = "Err" THEN 1 ELSE r.val

\* fn main: match run() { Err => eprintln + exit(1), Ok(c) => exit(c) }
MainExit ==
    /\ pc = "main"
    /\ out' = IF result.kind = "Err"
              THEN Append(out, Line("stderr", FALSE, "Error", result.err))
              ELSE out
    /\ exit_status' = Exited(MainExitCode(result))
    /\ pc' = "exited"
    /\ UNCHANGED <<matches, loaded, cfg_vars, clock_vars, running, handler_set, result,
                   exit_path, count_vars, sig_vars, reported, write_failed, dur_vars>>

\* -------------------------------------------------------------- environment

LoopPcs == {"sample", "load", "interrupted", "rearm", "check", "sleeping", "progress"}

\* Mutant: the handler stores the running value.
HandlerStore_Wrong == TRUE

\* The value the ctrlc handler stores into the latch.
HandlerStore == FALSE

\* The handler closure: r.store(false, Ordering::SeqCst), on a signal.  Once
\* the loop is left nothing reads the latch, so deliveries are followed up to
\* the break only.
Signal ==
    /\ handler_set
    /\ pc \in LoopPcs
    /\ sig_count < MaxSignals
    /\ running' = HandlerStore
    /\ sig_count' = sig_count + 1
    /\ sig_first' = (IF sig_count = 0 THEN pc ELSE sig_first)
    /\ sig_early' = (sig_early \/ (sleeping_duration.some /\ now - start_time < sleeping_duration.ms))
    /\ pend' = TRUE
    /\ UNCHANGED <<matches, loaded, pc, cfg_vars, clock_vars, handler_set, out, result,
                   exit_status, exit_path, count_vars, reported, write_failed, dur_vars>>

\* The steps the clock can make: a free step, or exactly up to the deadline
\* of the sleep in progress.
TickSteps ==
    (IF now < MaxNow THEN {TickMs} ELSE {})
        \cup (IF pc = "sleeping" /\ wake_at > now THEN {wake_at - now} ELSE {})

\* Time passes.  The clock is read in the loop only (and once more for the
\* final message, which no decision depends on).
Tick ==
    /\ pc \in LoopPcs
    /\ \E d \in TickSteps : now' = now + d
    /\ UNCHANGED <<matches, loaded, pc, cfg_vars, start_time, since_start, wake_at,
                   slice, woke_after, running, handler_set, out, result,
                   exit_status, exit_path, count_vars, sig_vars, reported, write_failed,
                   dur_vars>>

\* ------------------------------------------------------------ specifications

Main ==
    \/ ParseArgs
    \/ Daemonize
    \/ PrintStatus
    \/ SetHandler
    \/ Sample
    \/ LoadLatch
    \/ Ignore
    \/ Rearm
    \/ Caught
    \/ CheckDuration
    \/ Wake
    \/ Progress
    \/ WokeUp
    \/ MainExit

Next ==
    \/ Main
    \/ Signal
    \/ Tick

Spec == Init /\ [][Next]_vars

\* Progress is examined on the runs with the default --exit-code, which the
\* loop never reads.
InitLive == Init /\ matches.exit_code = [ok |-> TRUE, val |-> 0]

\* The main thread keeps running and the clock keeps advancing; signals are
\* under no obligation to arrive.
FairSpec == InitLive /\ [][Next]_vars /\ WF_vars(Main) /\ WF_vars(Tick)

\* duration_from_float on its own, applied to one value per behaviour.
InitDur ==
    /\ matches = [duration |-> NoArg, exit_code |-> [ok |-> TRUE, val |-> 0],
                  verbose |-> FALSE, quiet |-> FALSE, no_interrupt |-> FALSE,
                  daemon |-> FALSE, stderr |-> FALSE]
    /\ pc = "dur_call"
    /\ dur_in \in DurInputs
    /\ cmp_in = <<>>
    /\ InitCommon

DurApply ==
    /\ pc = "dur_call"
    /\ dur_out' = duration_from_float(ParseF64(dur_in))
    /\ pc' = "dur_done"
    /\ UNCHANGED <<matches, loaded, cfg_vars, clock_vars, running, handler_set, out,
                   result, exit_status, exit_path, count_vars, sig_vars,
                   reported, write_failed, dur_in, wide_out, cmp_vars>>

NextDur == DurApply

SpecDur == InitDur /\ [][NextDur]_vars

\* The duration argument's evaluation on whole numbers of any size and on the
\* non-finite values: m * 2^e seconds of either sign, "inf", "-inf", "NaN",
\* a word, and two decimals.
WideMants == {1, 3, 5, 7}
WideInputs ==
    {WholeText(neg, m, e) : neg \in BOOLEAN, m \in WideMants, e \in 0 .. MaxExp2}
        \cup {NaNText, InfText(FALSE), InfText(TRUE), Word, Dec(FALSE, 15005), Dec(TRUE, 15005)}

InitWide ==
    /\ matches = [duration |-> NoArg, exit_code |-> [ok |-> TRUE, val |-> 0],
                  verbose |-> FALSE, quiet |-> FALSE, no_interrupt |-> FALSE,
                  daemon |-> FALSE, stderr |-> FALSE]
    /\ pc = "wide_call"
    /\ dur_in \in WideInputs
    /\ cmp_in = <<>>
    /\ InitCommon

\* The outcomes of an overflowing u64 operation: a panic where overflow checks
\* are compiled in (debug profile), the wrapped value where they are not
\* (release profile).
OverflowOutcomes(wrapped) ==
    {[kind |-> "Panic", val |-> W(0), err |-> "none"],
     [kind |-> "Ok", val |-> wrapped, err |-> "none"]}

\* duration.parse::<f64>().map_err(|_| DurationParseError).and_then(duration_from_float)
WideApply ==
    /\ pc = "wide_call"
    /\ LET r == IF dur_in.numeric THEN duration_from_float_u64(ParseF64(dur_in))
                ELSE [kind |-> "Err", val |-> W(0), err |-> "DurationParseError"]
       IN  IF r.kind = "Overflow"
           THEN wide_out' \in OverflowOutcomes(r.val)
           ELSE wide_out' = r
    /\ pc' = "wide_done"
    /\ UNCHANGED <<matches, loaded, cfg_vars, clock_vars, running, handler_set, out,
                   result, exit_status, exit_path, count_vars, sig_vars,
                   reported, write_failed, dur_in, dur_out, cmp_vars>>

NextWide == WideApply

SpecWide == InitWide /\ [][NextWide]_vars

\* The comparisons of VerbosityLevel on their own: three levels a, b, c and
\* the pairs (a,b), (b,c), (a,c), (b,a), (c,b), (c,a), compared in that order.
CmpPairs == <<<<1, 2>>, <<2, 3>>, <<1, 3>>, <<2, 1>>, <<3, 2>>, <<3, 1>>>>

InitCmp ==
    /\ matches = [duration |-> NoArg, exit_code |-> [ok |-> TRUE, val |-> 0],
                  verbose |-> FALSE, quiet |-> FALSE, no_interrupt |-> FALSE,
                  daemon |-> FALSE, stderr |-> FALSE]
    /\ pc = "cmp_call"
    /\ dur_in = NoArg
    /\ cmp_in \in [1 .. 3 -> VerbosityLevel]
    /\ InitCommon

CmpApply ==
    /\ pc = "cmp_call"
    /\ LET k == Len(cmp_out) + 1
           x == cmp_in[CmpPairs[k][1]]
           y == cmp_in[CmpPairs[k][2]]
       IN  /\ cmp_out' = Append(cmp_out, [ord |-> partial_cmp(x, y), eq |-> eq(x, y)])
           /\ pc' = IF k = Len(CmpPairs) THEN "cmp_done" ELSE "cmp_call"
    /\ UNCHANGED <<matches, loaded, cfg_vars, clock_vars, running, handler_set, out,
                   result, exit_status, exit_path, count_vars, sig_vars,
                   reported, write_failed, dur_in, dur_out, wide_out, cmp_in>>

NextCmp == CmpApply

SpecCmp == InitCmp /\ [][NextCmp]_vars


\* ------------------------------------------------------------------- claims

Count(seq, x) == Cardinality({i \in DOMAIN seq : seq[i] = x})

\* How often msg was passed to the OutputHandler, and how often it was written.
Reported(msg) == Count(reported, msg)
Written(msg) == Cardinality({i \in DOMAIN out : out[i].prefixed /\ out[i].msg = msg})

Tail2(seq) == IF Len(seq) < 2 THEN <<>> ELSE <<seq[Len(seq) - 1], seq[Len(seq)]>>
LastMsg(seq) == IF seq = <<>> THEN "none" ELSE seq[Len(seq)].msg
Returned == pc \in {"main", "exited"}
Shown == verbosity_level \in {Normal, Verbose}

\* C1 ----------------------------------------------------------------------

C1_Case == sleeping_duration.some /\ ~no_interrupt /\ sig_early

\* C1 as claimed, for a signal that arrives during a sleep slice: with a
\* finite target and no-interrupt mode off, a signal delivered at elapsed < T
\* makes the loop end through the interrupted branch in a cycle whose elapsed
\* time is strictly before T.
C1_Original ==
    (C1_Case /\ sig_first = "sleeping" /\ exit_path # "none") =>
        (exit_path = "Interrupted" /\ since_start < sleeping_duration.ms)

C1_Safe ==
    C1_Case =>
        /\ exit_path # "Done"
        /\ slices_after_sig <= 1
        /\ Returned =>
             /\ Tail2(reported) = <<"Caught", "Woke">>
             /\ Shown => /\ Len(out) >= 2
                         /\ out[Len(out) - 1].msg = "Caught"
                         /\ out[Len(out)].msg = "Woke"
             /\ ~Shown => Written("Caught") = 0 /\ Written("Woke") = 0

\* C1 (amended): with a finite target T and no-interrupt mode off, a signal
\* delivered at elapsed < T always ends the loop through the interrupted
\* branch, never through the duration check, after at most one more sleep
\* slice, and "Caught termination signal" followed by "Woke up after" are the
\* last two messages (written at Normal and Verbose).  The terminating cycle's
\* elapsed time may be >= T.
C1_InterruptEndsLoop ==
    /\ []C1_Safe
    /\ C1_Case ~> (exit_path = "Interrupted" /\ pc = "exited")

\* The signal arrives during the clamped last slice; the loop ends through
\* the interrupted branch at elapsed >= T.
C1_Witness ==
    /\ C1_Case /\ pc = "exited" /\ exit_path = "Interrupted"
    /\ sig_first = "sleeping" /\ slices_after_sig = 0 /\ slice < cycle_time
    /\ since_start >= sleeping_duration.ms
    /\ Shown /\ LastMsg(out) = "Woke"

\* C2 ----------------------------------------------------------------------

C2_Case == sleeping_duration.some /\ no_interrupt /\ sig_count = 1 /\ sig_first = "sleeping"

C2_Safe ==
    /\ no_interrupt => (exit_path # "Interrupted" /\ Reported("Caught") = 0 /\ Written("Caught") = 0)
    /\ (sleeping_duration.some /\ no_interrupt /\ exit_path # "none") =>
            (exit_path = "Done" /\ since_start >= sleeping_duration.ms)
    /\ C2_Case =>
         /\ Reported("Ignoring") <= 1
         /\ exit_path = "Done" =>
              /\ Reported("Ignoring") = 1
              /\ Written("Ignoring") = (IF Shown THEN 1 ELSE 0)
              /\ running

\* C2: in no-interrupt mode with a finite target T, one interrupt delivered
\* during a sleep slice never ends the loop early: it is answered by exactly
\* one "Ignoring termination signal." message (written at Normal and
\* Verbose), the latch is stored back to running, and the loop goes on until a
\* cycle samples elapsed >= T and ends through the duration check; "Caught
\* termination signal" is never emitted in this mode.
C2_IgnoredInterrupt ==
    /\ []C2_Safe
    /\ (sleeping_duration.some /\ no_interrupt /\ handler_set) ~> (exit_path = "Done" /\ pc = "exited")

C2_Witness ==
    /\ C2_Case /\ pc = "exited" /\ exit_path = "Done"
    /\ Written("Ignoring") = 1 /\ slices >= 2

\* C3 ----------------------------------------------------------------------

C3_Case == sleeping_duration.some /\ handler_set /\ sig_count = 0

\* Sleep slices that have returned and been reported.
SlicesDone == slices - (IF pc \in {"sleeping", "progress"} THEN 1 ELSE 0)

C3_Safe ==
    C3_Case =>
        /\ exit_path # "Interrupted"
        /\ exit_path = "Done" => since_start >= sleeping_duration.ms
        /\ Written("Still") = (IF verbosity_level = Verbose THEN SlicesDone ELSE 0)
        /\ Written("Woke") = (IF Returned /\ Shown THEN 1 ELSE 0)
        /\ (Returned /\ Shown) => LastMsg(out) = "Woke"

\* C3: with a finite target T and the latch never set the loop terminates, the
\* elapsed time sampled by the terminating cycle is >= T, at Normal and
\* Verbose exactly one "Woke up after" message is written and it is the last
\* line of the run, and "Still dreaming after" lines are written at Verbose
\* only, one per completed sleep slice.
C3_NormalCompletion ==
    /\ []C3_Safe
    /\ (sleeping_duration.some /\ handler_set) ~> (exit_path = "Done" \/ sig_count > 0)

C3_Witness ==
    /\ C3_Case /\ pc = "exited" /\ exit_path = "Done"
    /\ verbosity_level = Verbose /\ Written("Still") = 2 /\ slice < cycle_time

\* C4 ----------------------------------------------------------------------

Forever == handler_set /\ ~sleeping_duration.some

\* C4: without a target and with no-interrupt mode off, an interrupt delivered
\* after the handler is registered makes the loop end through the interrupted
\* branch; with no interrupt the loop without a target never ends.
C4_ForeverUntilInterrupt ==
    /\ []((Forever /\ sig_count = 0) => (exit_path = "none" /\ pc \in LoopPcs))
    /\ (Forever /\ ~no_interrupt /\ sig_count > 0) ~> (exit_path = "Interrupted" /\ pc = "exited")

C4_Witness ==
    /\ Forever /\ ~no_interrupt /\ sig_count = 1
    /\ pc = "exited" /\ exit_path = "Interrupted"

\* C5 ----------------------------------------------------------------------

\* C5 as claimed: in no-interrupt mode every interrupt delivered since the
\* previous latch read, the window between that read and the re-arming store
\* included, is read as "interrupted" by the next latch read.
C5_NoInterruptLost ==
    [][(no_interrupt /\ pc = "load" /\ pend /\ pc' # pc) => pc' = "interrupted"]_vars

\* C6 ----------------------------------------------------------------------

\* C6: with no-interrupt mode off, once the handler has set the latch the
\* loop begins at most one more sleep slice, with or without a target, and the
\* slice is no longer than the quantum.
C6_BoundedResponse ==
    (~no_interrupt /\ sig_count > 0) =>
        /\ slices_after_sig <= 1
        /\ slice <= cycle_time

C6_Witness ==
    /\ ~no_interrupt /\ ~sleeping_duration.some
    /\ slices_after_sig = 1 /\ slice = cycle_time /\ exit_path = "Interrupted"

\* C7 ----------------------------------------------------------------------

SetupFailed == pc = "exited" /\ exit_path = "none"

C8_ExitCode ==
    /\ handler_set => (result.kind # "Err" /\ exit_status.kind # "panic")
    /\ exit_path # "none" =>
         /\ exit_code = ExitCodeOf(matches)
         /\ Returned => result = Ok(exit_code)
         /\ pc = "exited" => exit_status = Exited(exit_code)

C8_Witness ==
    /\ pc = "exited" /\ exit_path = "Interrupted"
    /\ matches.exit_code.val = 3 /\ exit_status = Exited(3)
    /\ verbosity_level = Quiet


\* C9 ----------------------------------------------------------------------

\* The millisecond nearest to the decimal n/DecScale, halves away from zero.
DecimalRoundMillis(n) == (n + 5) \div 10

\* round(s * 1000) of the binary64 value s nearest to n/DecScale, computed
\* exactly: a value below a half-millisecond decimal rounds down.
ExactRoundMillis(n) == IF n % 10 = 5 /\ F64Below(n) THEN n \div 10 ELSE DecimalRoundMillis(n)

DurDone == pc = "dur_done"

\* C9 as claimed: for every non-negative input s with up to four decimal
\* places the result is Ok with a millisecond count equal to round(s * 1000).
C9_Original ==
    (DurDone /\ ~dur_in.neg) => dur_out = Ok(ExactRoundMillis(dur_in.n))

\* C9 (amended): for every non-negative input with up to four decimal places
\* whose fourth decimal digit is not 5, the result is Ok with
\* floor(s)*1000 + round((s - floor(s))*1000) = round(s*1000) milliseconds, a
\* fraction that rounds to 1000 ms carrying into the next second; the values
\* of test_duration_from_float give 14000, 14000, 0, 12345, 12345, 12346, 1
\* and 1100 ms.  At a fourth digit of 5 the result is one of the two
\* neighbouring millisecond counts.
C9_Rounding ==
    (DurDone /\ ~dur_in.neg) =>
        /\ dur_out.kind = "Ok"
        /\ dur_in.n % 10 # 5 =>
             /\ dur_out.val = DecimalRoundMillis(dur_in.n)
             /\ dur_out.val = ExactRoundMillis(dur_in.n)
             /\ dur_out.val = (dur_in.n \div DecScale) * MillisPerSec
                                + DecimalRoundMillis(dur_in.n % DecScale)
        /\ dur_in.n % 10 = 5 => dur_out.val \in {dur_in.n \div 10, dur_in.n \div 10 + 1}
        /\ dur_in.n = 9996 => dur_out.val = 1000
        /\ dur_in.n = 123450 => dur_out.val = 12345
        /\ dur_in.n = 123454 => dur_out.val = 12345
        /\ dur_in.n = 123456 => dur_out.val = 12346
        /\ dur_in.n = 140000 => dur_out.val = 14000
        /\ dur_in.n = 140001 => dur_out.val = 14000
        /\ dur_in.n = 10 => dur_out.val = 1
        /\ dur_in.n = 11000 => dur_out.val = 1100
        /\ dur_in.n = 0 => dur_out.val = 0

C9_Witness == DurDone /\ dur_in = Dec(FALSE, 123456) /\ dur_out = Ok(12346)

\* C10 ---------------------------------------------------------------------

\* C10 as claimed: every input with a negative sign, negative zero included,
\* is rejected with DurationNegative.
C10_Original ==
    (DurDone /\ dur_in.neg) => dur_out = Err("DurationNegative")

\* C10 (amended): every input that compares below zero is rejected with
\* DurationNegative, and the check precedes flooring and rounding, so a small
\* negative value that would round to 0 ms is rejected too; negative zero
\* does not compare below zero and yields Ok(0 ms).  No input below zero
\* yields a Duration.
C10_NegativeRejected ==
    DurDone =>
        /\ (dur_in.neg /\ dur_in.n > 0) => dur_out = Err("DurationNegative")
        /\ (dur_in.neg /\ dur_in.n = 0) => dur_out = Ok(0)
        /\ dur_out.kind = "Ok" => (dur_out.val >= 0 /\ (~dur_in.neg \/ dur_in.n = 0))
        /\ dur_out.kind \in {"Ok", "Err"}

C10_Witness == DurDone /\ dur_in = Dec(TRUE, 4) /\ dur_out = Err("DurationNegative")

\* C11 --------------------------------------------------------------------

NonFiniteText(d) == d.present /\ (~d.numeric \/ d.form \in {"nan", "inf"})

\* C11 as claimed: a duration text that does not denote a finite real number,
\* a word as well as "NaN" or "inf", makes the run fail with
\* DurationParseError and exit code 1, and never yields a target duration.
C11_NonFiniteRejected ==
    (NonFiniteText(matches.duration) /\ pc # "args") =>
        /\ result = Err("DurationParseError")
        /\ ~sleeping_duration.some
        /\ pc = "exited" => exit_status = Exited(1)

\* C12 --------------------------------------------------------------------

WideDone == pc = "wide_done"

\* C12 as claimed: for every non-negative whole number of seconds, however
\* large, duration_from_float returns Ok with exactly 1000 times as many
\* milliseconds.
C12_NoUpperBound ==
    (WideDone /\ dur_in.form = "pow" /\ ~dur_in.neg) =>
        /\ wide_out.kind = "Ok"
        /\ wide_out.val = WMulSmall(F64Whole(ParseF64(dur_in)), MillisPerSec)

\* C13 --------------------------------------------------------------------

\* The messages run() passes to print_verbose; every other message goes to print.
VerboseOnly == {"Daemonizing", "getcwd", "getpid", "Still"}

Passes(level, msg) ==
    IF msg \in VerboseOnly THEN level = Verbose ELSE level \in {Normal, Verbose}

\* The status lines ("[prefix]: msg") handed to a stream, in order.
StatusLines == SelectSeq(out, LAMBDA l : l.prefixed)

\* C13: the status lines written are exactly the messages passed to print at
\* Normal and Verbose plus the messages passed to print_verbose at Verbose, in
\* order (none at Quiet); each has the form "[prefix]: msg" and goes to stderr
\* iff --stderr is set, otherwise to stdout; a write that fails changes
\* nothing else: the run neither panics nor returns an error after it and
\* ends only through main's exit.
C13_StatusGating ==
    /\ LET passed == SelectSeq(reported, LAMBDA m : Passes(verbosity_level, m))
       IN  /\ Len(StatusLines) = Len(passed)
           /\ \A i \in DOMAIN passed :
                StatusLines[i] =
                    Line(IF print_to_stderr THEN "stderr" ELSE "stdout", TRUE, passed[i], "none")
    /\ verbosity_level = Quiet => StatusLines = <<>>
    /\ \A i \in DOMAIN out : ~out[i].prefixed => out[i].stream = "stderr"
    /\ write_failed => StatusLines # <<>>
    /\ (write_failed /\ handler_set) => (exit_status.kind # "panic" /\ result.kind # "Err")
    /\ pc = "exited" => exit_status # StillRunning

C13_Witness ==
    /\ pc = "exited" /\ exit_path = "Done" /\ write_failed
    /\ verbosity_level = Verbose /\ print_to_stderr
    /\ Written("Still") = 2 /\ Written("Woke") = 1
    /\ exit_status = Exited(exit_code)

\* C14 --------------------------------------------------------------------

\* A sleep slice of the current iteration has been started.
InSlice == pc \in {"sleeping", "progress"}

\* C14: every sleep slice the loop starts is strictly positive and at most
\* the 100 ms quantum; with a target T it is the quantum when elapsed + 100 ms
\* <= T and exactly T - elapsed otherwise, so elapsed + slice <= T, and no
\* slice is started at elapsed >= T; without a target it is always 100 ms.
C14_SliceInvariant ==
    /\ slices > 0 => (0 < slice /\ slice <= cycle_time)
    /\ slices = 0 => slice = 0
    /\ InSlice =>
         /\ slices > 0
         /\ wake_at >= start_time + since_start + slice
         /\ sleeping_duration.some =>
              /\ since_start < sleeping_duration.ms
              /\ slice = (IF since_start + cycle_time <= sleeping_duration.ms
                          THEN cycle_time
                          ELSE sleeping_duration.ms - since_start)
              /\ since_start + slice <= sleeping_duration.ms
         /\ ~sleeping_duration.some => slice = cycle_time

C14_Witness ==
    /\ pc = "sleeping" /\ sleeping_duration = Some(130)
    /\ since_start = cycle_time /\ slice = sleeping_duration.ms - since_start
    /\ slices = 2

\* C15 --------------------------------------------------------------------

\* The start message ("Going to sleep ..") has been passed to print.
Started == Reported("GoingFor") + Reported("GoingForever") > 0

\* C15: a requested daemonization is attempted before the start message,
\* before the signal handler is registered and before the first loop cycle;
\* the handler is registered before the first latch read; a failed
\* daemonization ends the run with FailedToDaemonize with no handler
\* registered, no start message and no sleep slice.
C15_SetupOrdering ==
    /\ pc \in {"args", "daemon"} =>
         (~Started /\ ~handler_set /\ cycles = 0 /\ slices = 0)
    /\ (matches.daemon /\ (Started \/ handler_set \/ cycles > 0)) =>
         (reported[1] = "Daemonizing" /\ Reported("Daemonizing") = 1 /\ result.kind # "Err")
    /\ ~matches.daemon => Reported("Daemonizing") = 0
    /\ handler_set => Started
    /\ (cycles > 0 \/ pc \in LoopPcs) => handler_set
    /\ result = Err("FailedToDaemonize") =>
         /\ matches.daemon /\ reported = <<"Daemonizing">>
         /\ pc \in {"main", "exited"}
         /\ ~handler_set /\ ~Started /\ cycles = 0 /\ slices = 0

C15_Witness ==
    /\ pc = "main" /\ result = Err("FailedToDaemonize")
    /\ verbosity_level = Verbose /\ Len(out) = 1 /\ out[1].msg = "Daemonizing"

\* C16 --------------------------------------------------------------------

CmpDone == pc = "cmp_done"

\* C16: VerbosityLevel is strictly and totally ordered Quiet < Normal <
\* Verbose: for every pair of levels exactly one of <, =, > holds (and = holds
\* for identical levels only), a < b iff b > a, the order is transitive, and
\* Verbose > Normal, Normal > Quiet, Verbose > Quiet.
C16_VerbosityOrder ==
    CmpDone =>
        /\ \A k \in DOMAIN cmp_out :
             /\ cmp_out[k].ord \in {"Less", "Equal", "Greater"}
             /\ (cmp_out[k].ord = "Equal") <=> cmp_out[k].eq
             /\ cmp_out[k].eq <=> (cmp_in[CmpPairs[k][1]] = cmp_in[CmpPairs[k][2]])
        /\ \A k \in 1 .. 3 :
             /\ (cmp_out[k].ord = "Less") <=> (cmp_out[k + 3].ord = "Greater")
             /\ (cmp_out[k].ord = "Greater") <=> (cmp_out[k + 3].ord = "Less")
        /\ (cmp_out[1].ord = "Less" /\ cmp_out[2].ord = "Less") => cmp_out[3].ord = "Less"
        /\ (cmp_out[1].ord = "Greater" /\ cmp_out[2].ord = "Greater") => cmp_out[3].ord = "Greater"
        /\ cmp_in = <<Verbose, Normal, Quiet>> =>
             (cmp_out[1].ord = "Greater" /\ cmp_out[2].ord = "Greater" /\ cmp_out[3].ord = "Greater")
        /\ cmp_in = <<Quiet, Normal, Verbose>> =>
             (cmp_out[1].ord = "Less" /\ cmp_out[2].ord = "Less" /\ cmp_out[3].ord = "Less")

C16_Witness ==
    /\ CmpDone /\ cmp_in = <<Verbose, Normal, Quiet>>
    /\ cmp_out[2] = [ord |-> "Greater", eq |-> FALSE]

\* C17 --------------------------------------------------------------------

\* C17: with no-interrupt mode off the latch is examined before the duration:
\* an iteration that reads the latch as interrupted emits "Caught termination
\* signal" and leaves the loop through the interrupted branch without
\* reaching the duration check, also when its elapsed time is already >= the
\* target; the duration check is reached, and the loop left through it, only
\* in an iteration whose latch read returned running.
C17_LatchBeforeDuration ==
    ~no_interrupt =>
        /\ loaded = "interrupted" =>
             /\ pc \in {"interrupted", "woke", "main", "exited"}
             /\ exit_path # "Done"
             /\ pc # "interrupted" => (exit_path = "Interrupted" /\ Reported("Caught") = 1)
        /\ pc \in {"check", "sleeping", "progress"} => loaded = "running"
        /\ exit_path = "Done" => (loaded = "running" /\ Reported("Caught") = 0)
        /\ exit_path = "Interrupted" => loaded = "interrupted"

C17_Witness ==
    /\ ~no_interrupt /\ pc = "woke" /\ exit_path = "Interrupted"
    /\ sleeping_duration.some /\ since_start >= sleeping_duration.ms
    /\ slices > 0
    /\ loaded = "interrupted" /\ LastMsg(out) = "Caught"

\* C18 --------------------------------------------------------------------

\* The current iteration has been started and has neither slept nor ended.
InIteration == pc \in {"load", "interrupted", "rearm", "check"}

\* C18: in no-interrupt mode an iteration whose latch read returned
\* interrupted goes on, after the re-arm, with the duration check and the
\* slice computation on the elapsed time it sampled at its start: every
\* iteration, interrupted or not, starts exactly one sleep slice or ends the
\* loop, the slice is the one an uninterrupted iteration with the same
\* elapsed time starts, and the loop ends in the first iteration that samples
\* elapsed >= T.
C18_IgnoredKeepsCycle ==
    no_interrupt =>
        /\ cycles = slices + (IF InIteration \/ exit_path # "none" THEN 1 ELSE 0)
        /\ (loaded = "interrupted" /\ pc # "interrupted") => Reported("Ignoring") >= 1
        /\ pc \in {"check", "sleeping", "progress"} => loaded \in {"running", "interrupted"}
        /\ (InSlice /\ sleeping_duration.some) =>
             /\ since_start < sleeping_duration.ms
             /\ slice = IF sleeping_duration.ms - since_start < cycle_time
                        THEN sleeping_duration.ms - since_start
                        ELSE cycle_time
        /\ (InSlice /\ ~sleeping_duration.some) => slice = cycle_time
        /\ exit_path # "none" =>
             (exit_path = "Done" /\ since_start >= sleeping_duration.ms)

C18_Witness ==
    /\ no_interrupt /\ loaded = "interrupted" /\ pc = "sleeping"
    /\ cycles = 2 /\ slices = 2 /\ slice < cycle_time
    /\ LastMsg(out) = "Ignoring"

\* C19 --------------------------------------------------------------------

ForeverIgnoring == Forever /\ no_interrupt

C19_Safe ==
    ForeverIgnoring =>
        /\ exit_path = "none" /\ pc \in LoopPcs
        /\ result = NoResult /\ exit_status = StillRunning
        /\ Reported("Woke") = 0 /\ Reported("Caught") = 0
        /\ InSlice => slice = cycle_time
        /\ (loaded = "interrupted" /\ pc # "interrupted") => Reported("Ignoring") >= 1
        /\ (loaded = "interrupted" /\ pc \in {"check", "sleeping", "progress"} /\ ~pend) => running

\* C19: without a target and in no-interrupt mode no sequence of signals
\* ends the loop: run() never returns and "Woke up after" is never emitted;
\* every latch read that returns interrupted is answered by "Ignoring
\* termination signal.", the re-arm and a full 100 ms slice in the same
\* iteration.
C19_ForeverIgnoring ==
    /\ []C19_Safe
    /\ (ForeverIgnoring /\ pc = "interrupted") ~>
            (pc = "sleeping" /\ loaded = "interrupted" /\ slice = cycle_time)

C19_Witness ==
    /\ ForeverIgnoring /\ pc = "sleeping" /\ loaded = "interrupted"
    /\ sig_count = 2 /\ Reported("Ignoring") = 2 /\ slices = 3

\* C20 --------------------------------------------------------------------

BadExitCode == ~matches.exit_code.ok

\* C20: an --exit-code value that is no i32 is no setup failure: the run
\* fails before the loop only for the reasons it fails with a valid code (the
\* duration, the daemonization), otherwise it sleeps as usual and exits with
\* code 0 when the loop ends.
C20_InvalidExitCode ==
    BadExitCode =>
        /\ pc \notin {"args", "main", "exited"} => exit_code = 0
        /\ result.kind = "Err" =>
             \/ result.err = "FailedToDaemonize" /\ matches.daemon
             \/ result.err = "DurationParseError" /\ ~matches.duration.numeric
             \/ result.err = "DurationNegative" /\ matches.duration.neg
        /\ exit_path # "none" =>
             /\ Returned => result = Ok(0)
             /\ pc = "exited" => exit_status = Exited(0)
        /\ exit_path = "Done" => since_start >= sleeping_duration.ms

C20_Witness ==
    /\ BadExitCode /\ pc = "exited" /\ exit_path = "Done"
    /\ slices = 2 /\ exit_status = Exited(0) /\ LastMsg(out) = "Woke"

====
